---- MODULE Spec2Model ----
(***************************************************************************)
(* Meal plan generation and maintenance engine of ah_mealplanner:          *)
(* generate_daily_plan / generate_weekly_plan (meal_planner.py),           *)
(* save_meal_plan and connect (db.py), update_servings, alternatives and   *)
(* _recalculate_plan_totals (web/routes.py), and the admin crawl jobs       *)
(* started by _start_crawl (web/routes.py).                                *)
(*                                                                         *)
(* Numbers.  The program computes in binary floating point.  The model     *)
(* uses exact fixed point: nutrient amounts (kcal, grams of a macro) are   *)
(* integers in hundredths, servings are integers in ten-thousandths        *)
(* (10000 = 1.0 serving = 100 g of a product), scores and weighted errors  *)
(* are multiplied by 10 so that the weights 2.0, 1.0, 1.2 and 0.5 become   *)
(* 20, 10, 12 and 5.  round(x, 1) is modelled as rounding to the nearest   *)
(* multiple of 10 hundredths, ties to even.  The catalogue values are      *)
(* chosen so that every division the planner performs is exact.            *)
(*                                                                         *)
(* Text.  Titles, names, tags and exclusion terms are sequences of         *)
(* one-character strings; lower() maps the upper-case letters.             *)
(***************************************************************************)
EXTENDS Integers, Sequences, FiniteSets, TLC

VARIABLES
    catalog,   \* tables recipes (with their recipe_tags rows) and products
    db,        \* committed content of meal_plans / meal_plan_items (what any other connection reads)
    conn,      \* the handler's open connection: uncommitted view and sqlite3_last_insert_rowid
    pc,        \* position of the running handler
    req,       \* arguments of the running handler
    gen,       \* locals of generate_daily_plan / generate_weekly_plan
    sv,        \* locals of save_meal_plan
    hist,      \* history: what the calls of this run were given and returned
    ops,       \* handlers started so far
    crawl      \* the admin crawl jobs: _crawl_state, _crawl_logs, _crawl_lock and their threads

vars == <<catalog, db, conn, pc, req, gen, sv, hist, ops, crawl>>

\* Python's None where a number is expected (every amount of the model is >= 0)
None == 0 - 1

\* macro_targets=None, and a dict whose values are all None (line 64 treats them alike)
NoTargets == [protein_g |-> None, carbs_g |-> None, fat_g |-> None]

-----------------------------------------------------------------------------
(* Bounds of the model *)

\* POST /admin requests that name a crawl job, in one run
MaxCrawlRequests == 2
\* progress events one crawl reports
MaxEvents == 1

\* number of handlers (requests) one run starts
MaxOps == 2
\* calendar dates are 1..MaxDay
MaxDay == 2
\* meals_per_day is drawn from -1..MaxMeals
MaxMeals == 3

-----------------------------------------------------------------------------
(* Text *)

UpperToLower ==
    ("N" :> "n") @@ ("K" :> "k") @@ ("L" :> "l") @@ ("D" :> "d") @@ ("S" :> "s")
    @@ ("U" :> "u") @@ ("C" :> "c") @@ ("H" :> "h") @@ ("T" :> "t") @@ ("W" :> "w")
    @@ ("O" :> "o") @@ ("E" :> "e")

\* str.lower()
lower(s) ==
    [i \in 1..Len(s) |-> IF s[i] \in DOMAIN UpperToLower THEN UpperToLower[s[i]] ELSE s[i]]

\* Python's `sub in s` on strings
Contains(s, sub) ==
    \E i \in 0..(Len(s) - Len(sub)) : SubSeq(s, i + 1, i + Len(sub)) = sub

\* a mutant of _filter_by_exclusions: the comparison is case-sensitive
_filter_by_exclusions_no_lower(name, exclusions) ==
    \E k \in 1..Len(exclusions) : Contains(name, exclusions[k])

_filter_by_exclusions(name, exclusions) ==
    LET n == lower(name)
    IN  \E k \in 1..Len(exclusions) : Contains(n, lower(exclusions[k]))

-----------------------------------------------------------------------------
(* Sequences *)

RECURSIVE SelectSeq2(_, _)
\* list comprehension [x for x in s if Test(x)], Test given as a set of kept elements
SelectSeq2(s, keep) ==
    IF s = <<>> THEN <<>>
    ELSE IF Head(s) \in keep THEN <<Head(s)>> \o SelectSeq2(Tail(s), keep)
         ELSE SelectSeq2(Tail(s), keep)

Range(s) == {s[i] : i \in 1..Len(s)}

RECURSIVE SumSeq(_)
SumSeq(s) == IF s = <<>> THEN 0 ELSE Head(s) + SumSeq(Tail(s))

Abs(x) == IF x < 0 THEN -x ELSE x
Max(a, b) == IF a >= b THEN a ELSE b
Min(a, b) == IF a <= b THEN a ELSE b

-----------------------------------------------------------------------------
(* Arithmetic of the planner (meal_planner.py) *)

\* hundredths times ten-thousandths of a serving, back to hundredths
Times(value, servings) == (value * servings) \div 10000

\* round(x, 1): nearest multiple of 0.1, a tie to the even tenth
round1(x) ==
    LET q == x \div 10
        r == x % 10
    IN  IF r < 5 THEN 10 * q
        ELSE IF r > 5 THEN 10 * (q + 1)
        ELSE IF q % 2 = 0 THEN 10 * q ELSE 10 * (q + 1)

_calc_recipe_macros(row, servings) ==
    [calories  |-> Times(row.kcal_per_serving, servings),
     protein_g |-> Times(row.protein_g_per_serving, servings),
     carbs_g   |-> Times(row.carbs_g_per_serving, servings),
     fat_g     |-> Times(row.fat_g_per_serving, servings)]

\* grams are hundredths of a gram, so grams / 100.0 is the servings value
_calc_product_macros(row, grams) ==
    [calories  |-> Times(row.kcal_per_100, grams),
     protein_g |-> Times(row.protein_g_per_100, grams),
     carbs_g   |-> Times(row.carbs_g_per_100, grams),
     fat_g     |-> Times(row.fat_g_per_100, grams)]

_totals(items) ==
    [calories  |-> round1(SumSeq([i \in 1..Len(items) |-> items[i].calories])),
     protein_g |-> round1(SumSeq([i \in 1..Len(items) |-> items[i].protein_g])),
     carbs_g   |-> round1(SumSeq([i \in 1..Len(items) |-> items[i].carbs_g])),
     fat_g     |-> round1(SumSeq([i \in 1..Len(items) |-> items[i].fat_g]))]

\* macro_split = (0.3, 0.35, 0.35): protein, fat, carbs as fractions of the calories
default_macro_targets(target_calories) ==
    [protein_g |-> (target_calories * 30) \div 400,
     fat_g     |-> (target_calories * 35) \div 900,
     carbs_g   |-> (target_calories * 35) \div 400]

\* generate_daily_plan, lines 64-83: the macro targets the rest of the function uses
derive_macro_targets(macro_targets, target_calories) ==
    IF macro_targets = NoTargets
    THEN default_macro_targets(target_calories)
    ELSE [k \in {"protein_g", "fat_g", "carbs_g"} |->
            IF macro_targets[k] # None THEN macro_targets[k]
            ELSE default_macro_targets(target_calories)[k]]

\* max(1, meals_per_day)
meal_divisor(meals_per_day) == Max(1, meals_per_day)

\* a mutant of score_recipe: a recipe without calories scores 0 instead of infinity
score_recipe_zero_kcal_first(r, target_calories, meals_per_day, macro_targets) ==
    [inf |-> FALSE,
     v   |-> IF r.kcal_per_serving # 0
             THEN 1 + 10 * Abs(target_calories - meal_divisor(meals_per_day) * r.kcal_per_serving)
             ELSE 0]

\* score_recipe, multiplied by 10 * max(1, meals_per_day); inf is float("inf")
score_recipe(r, target_calories, meals_per_day, macro_targets) ==
    LET m    == meal_divisor(meals_per_day)
        kcal == r.kcal_per_serving
        base == 10 * Abs(target_calories - m * kcal)
        term(k, weight, value) ==
            IF macro_targets[k] # None THEN weight * Abs(macro_targets[k] - m * value) ELSE 0
        macro == IF macro_targets = NoTargets THEN 0
                 ELSE term("protein_g", 20, r.protein_g_per_serving)
                    + term("carbs_g", 10, r.carbs_g_per_serving)
                    + term("fat_g", 12, r.fat_g_per_serving)
    IN  IF kcal # 0 THEN [inf |-> FALSE, v |-> base + macro] ELSE [inf |-> TRUE, v |-> 0]

ScoreLess(a, b) == ~a.inf /\ (b.inf \/ a.v < b.v)

\* a mutant of first_sorted: of the candidates with the least score the last one is taken
first_sorted_last_tie(candidates, target_calories, meals_per_day, macro_targets) ==
    LET key(i) == score_recipe(candidates[i], target_calories, meals_per_day, macro_targets)
        best == CHOOSE i \in 1..Len(candidates) :
                    /\ \A j \in 1..Len(candidates) : ~ScoreLess(key(j), key(i))
                    /\ \A j \in (i + 1)..Len(candidates) : ScoreLess(key(i), key(j))
    IN  candidates[best]

\* sorted(candidates, key=score_recipe)[0]: the first candidate no other one beats
first_sorted(candidates, target_calories, meals_per_day, macro_targets) ==
    LET key(i) == score_recipe(candidates[i], target_calories, meals_per_day, macro_targets)
        best == CHOOSE i \in 1..Len(candidates) :
                    /\ \A j \in 1..Len(candidates) : ~ScoreLess(key(j), key(i))
                    /\ \A j \in 1..(i - 1) : ScoreLess(key(i), key(j))
    IN  candidates[best]

\* recipes / products left by the exclusion filter, lines 89-90
filtered_recipes(exclusions) ==
    SelectSeq2(catalog.recipes,
               {r \in Range(catalog.recipes) : ~_filter_by_exclusions(r.title, exclusions)})

filtered_products(exclusions) ==
    SelectSeq2(catalog.products,
               {p \in Range(catalog.products) : ~_filter_by_exclusions(p.name, exclusions)})

\* tags = [t.lower() for t in preferred_tags_per_meal[meal_idx] if t], or no tags;
\* preferred_tags_per_meal=None is the empty list (both fail the test of line 133)
slot_tags(preferred_tags_per_meal, meal_idx) ==
    IF meal_idx < Len(preferred_tags_per_meal)
    THEN LET given == preferred_tags_per_meal[meal_idx + 1]
         IN  {lower(given[k]) : k \in {k \in 1..Len(given) : given[k] # <<>>}}
    ELSE {}

\* a mutant of tagged_recipes: the tagged pool is not filtered by used_ids
tagged_recipes_keep_used(tags, exclusions, used_ids) ==
    SelectSeq2(catalog.recipes,
               {r \in Range(catalog.recipes) :
                    /\ \E k \in 1..Len(r.tags) : lower(r.tags[k]) \in tags
                    /\ ~_filter_by_exclusions(r.title, exclusions)})

\* the tag query of lines 137-147 with its filter (the tag rows are in recipe order)
tagged_recipes(tags, exclusions, used_ids) ==
    SelectSeq2(catalog.recipes,
               {r \in Range(catalog.recipes) :
                    /\ \E k \in 1..Len(r.tags) : lower(r.tags[k]) \in tags
                    /\ ~_filter_by_exclusions(r.title, exclusions)
                    /\ r.id \notin used_ids})

\* a mutant of slot_candidates: the preferred tags are not looked at
slot_candidates_ignore_tags(exclusions, preferred_tags_per_meal, meal_idx, used_ids) ==
    LET recipes == filtered_recipes(exclusions)
    IN  SelectSeq2(recipes, {r \in Range(recipes) : r.id \notin used_ids})

\* a mutant of slot_candidates: a slot with preferred tags takes tagged recipes only
slot_candidates_no_fallback(exclusions, preferred_tags_per_meal, meal_idx, used_ids) ==
    LET recipes == filtered_recipes(exclusions)
        tags    == slot_tags(preferred_tags_per_meal, meal_idx)
    IN  IF tags # {} THEN tagged_recipes(tags, exclusions, used_ids)
        ELSE SelectSeq2(recipes, {r \in Range(recipes) : r.id \notin used_ids})

\* the candidate pool of one slot, lines 131-152
slot_candidates(exclusions, preferred_tags_per_meal, meal_idx, used_ids) ==
    LET recipes == filtered_recipes(exclusions)
        tags    == slot_tags(preferred_tags_per_meal, meal_idx)
        tagged  == IF tags # {} THEN tagged_recipes(tags, exclusions, used_ids) ELSE <<>>
    IN  IF tagged # <<>> THEN tagged
        ELSE SelectSeq2(recipes, {r \in Range(recipes) : r.id \notin used_ids})

-----------------------------------------------------------------------------
(* The gap filler, lines 166-226 *)

\* macro_error, multiplied by 10
macro_error(totals_now, target_calories, macro_targets) ==
    LET term(k, weight) ==
            IF macro_targets[k] # None THEN weight * Abs(macro_targets[k] - totals_now[k]) ELSE 0
    IN  IF macro_targets = NoTargets THEN 0
        ELSE term("protein_g", 20) + term("carbs_g", 10) + term("fat_g", 12)
             + 5 * Abs(target_calories - totals_now.calories)

\* current_err (line 185) and err (line 217), multiplied by 10
plan_error(totals_now, target_calories, macro_targets) ==
    IF macro_targets # NoTargets
    THEN macro_error(totals_now, target_calories, macro_targets)
    ELSE 10 * Abs(target_calories - totals_now.calories)

\* a mutant of trial_grams: the portion is clamped to 350 grams
trial_grams_clamp_350(p_row, totals, target_calories, macro_targets) ==
    LET need(k, per100) ==
            IF macro_targets[k] # None /\ macro_targets[k] - totals[k] > 0 /\ per100 > 0
            THEN ((macro_targets[k] - totals[k]) * 10000) \div per100
            ELSE 0
        grams == Max(need("protein_g", p_row.protein_g_per_100),
                     Max(need("carbs_g", p_row.carbs_g_per_100),
                         need("fat_g", p_row.fat_g_per_100)))
    IN  Min(35000, Max(2500, IF grams <= 0 THEN 5000 ELSE grams))

\* the trial portion of one product in hundredths of a gram, lines 193-209
trial_grams(p_row, totals, target_calories, macro_targets) ==
    LET gap_cal == target_calories - totals.calories
        need(k, per100) ==
            IF macro_targets[k] # None /\ macro_targets[k] - totals[k] > 0 /\ per100 > 0
            THEN ((macro_targets[k] - totals[k]) * 10000) \div per100
            ELSE 0
        grams == Max(need("protein_g", p_row.protein_g_per_100),
                     Max(need("carbs_g", p_row.carbs_g_per_100),
                         need("fat_g", p_row.fat_g_per_100)))
    IN  IF macro_targets # NoTargets
        THEN Min(30000, Max(2500, IF grams <= 0 THEN 5000 ELSE grams))
        ELSE IF gap_cal * 100 > target_calories * 5
             THEN Min(20000, Max(5000, (gap_cal * 10000) \div p_row.kcal_per_100))
             ELSE 10000

add_totals(totals, m) ==
    [calories  |-> totals.calories + m.calories,
     protein_g |-> totals.protein_g + m.protein_g,
     carbs_g   |-> totals.carbs_g + m.carbs_g,
     fat_g     |-> totals.fat_g + m.fat_g]

\* err of one product's test_totals, lines 210-217
trial_error(p_row, totals, target_calories, macro_targets) ==
    LET grams == trial_grams(p_row, totals, target_calories, macro_targets)
    IN  plan_error(add_totals(totals, _calc_product_macros(p_row, grams)),
                   target_calories, macro_targets)

RECURSIVE best_product(_, _, _, _, _)
\* the loop over products, lines 188-220; best = [choice, err], choice <<>> is None
best_product(products, best, totals, target_calories, macro_targets) ==
    IF products = <<>> THEN best
    ELSE LET p_row == Head(products)
             err   == trial_error(p_row, totals, target_calories, macro_targets)
             next  == IF p_row.kcal_per_100 > 0 /\ err < best.err
                      THEN [choice |-> <<p_row>>, err |-> err]
                      ELSE best
         IN  best_product(Tail(products), next, totals, target_calories, macro_targets)

\* line 221
gap_commits(best, current_err) == best.choice # <<>> /\ best.err < current_err

product_item(p_row, totals, target_calories, macro_targets) ==
    LET grams == trial_grams(p_row, totals, target_calories, macro_targets)
        m     == _calc_product_macros(p_row, grams)
    IN  [item_type |-> "product", item_id |-> p_row.id, servings |-> grams,
         calories |-> m.calories, protein_g |-> m.protein_g, carbs_g |-> m.carbs_g,
         fat_g |-> m.fat_g, title |-> p_row.name]

recipe_item(r) ==
    LET m == _calc_recipe_macros(r, 10000)
    IN  [item_type |-> "recipe", item_id |-> r.id, servings |-> 10000,
         calories |-> m.calories, protein_g |-> m.protein_g, carbs_g |-> m.carbs_g,
         fat_g |-> m.fat_g, title |-> r.title]

-----------------------------------------------------------------------------
(* The catalogue and the requests the model draws from *)

Kip      == <<"K", "i", "p">>
Notenmix == <<"N", "o", "t", "e", "n", "m", "i", "x">>
Sla      == <<"S", "l", "a">>
Kipsla   == <<"K", "i", "p", "s", "l", "a">>
Kwark    == <<"K", "w", "a", "r", "k">>
Thee     == <<"T", "h", "e", "e">>
Noten    == <<"N", "o", "t", "e", "n">>
NOTEN    == <<"N", "O", "T", "E", "N">>
lunch    == <<"l", "u", "n", "c", "h">>
Lunch    == <<"L", "u", "n", "c", "h">>
LUNCH    == <<"L", "U", "N", "C", "H">>
Diner    == <<"D", "i", "n", "e", "r">>
diner    == <<"d", "i", "n", "e", "r">>

\* rows of recipes, with the tag column of their recipe_tags rows
RecipePool ==
    <<[id |-> 1, title |-> Kip, kcal_per_serving |-> 40000, protein_g_per_serving |-> 3000,
       carbs_g_per_serving |-> 4000, fat_g_per_serving |-> 1200, tags |-> <<Lunch, Diner>>],
      [id |-> 2, title |-> Notenmix, kcal_per_serving |-> 35004, protein_g_per_serving |-> 1200,
       carbs_g_per_serving |-> 3000, fat_g_per_serving |-> 2000, tags |-> <<lunch>>],
      [id |-> 3, title |-> Sla, kcal_per_serving |-> 0, protein_g_per_serving |-> 200,
       carbs_g_per_serving |-> 500, fat_g_per_serving |-> 0, tags |-> <<>>],
      [id |-> 4, title |-> Kipsla, kcal_per_serving |-> 40000, protein_g_per_serving |-> 3000,
       carbs_g_per_serving |-> 4000, fat_g_per_serving |-> 1200, tags |-> <<diner>>]>>

\* rows of products
ProductPool ==
    <<[id |-> 1, name |-> Kwark, kcal_per_100 |-> 6000, protein_g_per_100 |-> 1000,
       carbs_g_per_100 |-> 500, fat_g_per_100 |-> 0],
      [id |-> 2, name |-> Thee, kcal_per_100 |-> 4, protein_g_per_100 |-> 0,
       carbs_g_per_100 |-> 0, fat_g_per_100 |-> 0],
      [id |-> 3, name |-> Noten, kcal_per_100 |-> 60000, protein_g_per_100 |-> 1000,
       carbs_g_per_100 |-> 1000, fat_g_per_100 |-> 1000]>>

Skyr == <<"S", "k", "y", "r">>

\* a row of products whose kcal_per_100 is absent
NoKcalProduct ==
    [id |-> 4, name |-> Skyr, kcal_per_100 |-> 0, protein_g_per_100 |-> 1100,
     carbs_g_per_100 |-> 400, fat_g_per_100 |-> 0]

\* catalogues of at most two recipes whose products may include the one without calories
GapCatalogs ==
    {[recipes  |-> SelectSeq2(SubSeq(RecipePool, 1, 2), rs),
      products |-> SelectSeq2(Append(ProductPool, NoKcalProduct), ps)] :
        rs \in SUBSET Range(SubSeq(RecipePool, 1, 2)),
        ps \in SUBSET Range(Append(ProductPool, NoKcalProduct))}

\* every catalogue made of some of the pool's rows, in id order
Catalogs ==
    {[recipes  |-> SelectSeq2(RecipePool, rs),
      products |-> SelectSeq2(ProductPool, ps)] :
        rs \in SUBSET Range(RecipePool), ps \in SUBSET Range(ProductPool)}

StoreCatalog == [recipes |-> SubSeq(RecipePool, 1, 3), products |-> SubSeq(ProductPool, 1, 2)]

Dates == 1..MaxDay

MealCounts == (0 - 1)..MaxMeals

PlanRequests ==
    [target_calories : {72000, 144000},
     meals_per_day : MealCounts,
     macro_targets : {NoTargets, [protein_g |-> 6000, carbs_g |-> None, fat_g |-> None]},
     exclusions : {<<>>, <<NOTEN>>},
     preferred_tags_per_meal : {<<>>, <<<<lunch>>, <<lunch>>>>, <<<<LUNCH, diner>>, <<>>, <<Diner>>>>}]

StoreRequests ==
    [target_calories : {72000},
     meals_per_day : {1, 2},
     macro_targets : {NoTargets},
     exclusions : {<<>>},
     preferred_tags_per_meal : {<<>>}]

-----------------------------------------------------------------------------
(* The store: meal_plans and meal_plan_items (db.py, init_db) *)

ZeroTotals == [calories |-> 0, protein_g |-> 0, carbs_g |-> 0, fat_g |-> 0]

\* plan_seq / item_seq are the AUTOINCREMENT counters of the two tables
EmptyDb == [plans |-> {}, items |-> {}, plan_seq |-> 0, item_seq |-> 0]

Closed == [open |-> FALSE, work |-> EmptyDb, lir |-> 0, writing |-> FALSE]

NoReq ==
    [handler |-> "none", start |-> 0, days |-> 0, target_calories |-> 0, meals_per_day |-> 0,
     macro_targets |-> NoTargets, exclusions |-> <<>>, preferred_tags_per_meal |-> <<>>]

\* busy: the handler's UPDATE met a busy / locked store; attempts_made: how often the
\* handler ran that statement
NoOp ==
    [kind |-> "none", item_id |-> 0, plan_id |-> 0, recipe_id |-> 0, servings |-> 0,
     busy |-> FALSE, attempts_made |-> 0]

\* a mutant of GenStart: the recipes used on one day stay used on the next
GenStart_keep_used(i, out) ==
    [i |-> i, chosen |-> <<>>, used_ids |-> IF i = 0 THEN {} ELSE gen.used_ids, meal_idx |-> 0,
     items |-> <<>>, totals |-> ZeroTotals, prev_totals |-> ZeroTotals, iter |-> 0, out |-> out]

\* the locals of generate_daily_plan at its entry; i and out belong to generate_weekly_plan
GenStart(i, out) ==
    [i |-> i, chosen |-> <<>>, used_ids |-> {}, meal_idx |-> 0, items |-> <<>>,
     totals |-> ZeroTotals, prev_totals |-> ZeroTotals, iter |-> 0, out |-> out]

SvIdle ==
    [date |-> 0, target_calories |-> 0, meals_per_day |-> 0, totals |-> ZeroTotals,
     items |-> <<>>, macros_json |-> [target |-> ZeroTotals, actual |-> ZeroTotals],
     attempt |-> 0, delay_s |-> 0, slept |-> <<>>, error |-> "none",
     plan_id |-> 0, idx |-> 0, state |-> "none"]

\* macro targets in force for the running request
Targets == derive_macro_targets(req.macro_targets, req.target_calories)

\* the date generate_daily_plan is called with (dates are day numbers)
Day == req.start + gen.i

\* rows of meal_plans for a date (at most one: date is UNIQUE)
PlansOn(d, date) == {p \in d.plans : p.date = date}

\* rows of meal_plan_items of a plan id
ItemsOf(d, plan_id) == {it \in d.items : it.meal_plan_id = plan_id}

\* what a row of meal_plan_items says, without its own id and its plan's id
ItemContent(it) ==
    [meal_index |-> it.meal_index, item_type |-> it.item_type, item_id |-> it.item_id,
     servings |-> it.servings, notes |-> it.notes]

\* what a plan header says, without its id
HeaderContent(p) == [k \in (DOMAIN p) \ {"id"} |-> p[k]]

\* what a reader finds for a date: the header and the items joined to it by plan id
ReaderView(d, date) ==
    [headers |-> {HeaderContent(p) : p \in PlansOn(d, date)},
     items   |-> {ItemContent(it) :
                    it \in {x \in d.items : \E p \in PlansOn(d, date) : x.meal_plan_id = p.id}}]

-----------------------------------------------------------------------------
(* save_meal_plan, statement by statement (db.py 331-422) *)

\* lines 341-354: the target block and the achieved totals
macros_json_of(target_calories, macro_targets, totals) ==
    [target |-> [calories  |-> target_calories,
                 protein_g |-> macro_targets.protein_g,
                 carbs_g   |-> macro_targets.carbs_g,
                 fat_g     |-> macro_targets.fat_g],
     actual |-> totals]

plan_row(id, s) ==
    [id |-> id, date |-> s.date, target_calories |-> s.target_calories,
     meals_per_day |-> s.meals_per_day, macros_json |-> s.macros_json,
     total_calories |-> s.totals.calories, total_protein |-> s.totals.protein_g,
     total_carbs |-> s.totals.carbs_g, total_fat |-> s.totals.fat_g]

\* INSERT ... ON CONFLICT(date) DO UPDATE, lines 368-392.  The AUTOINCREMENT counter
\* advances on the update path too; sqlite3_last_insert_rowid changes only on the
\* insert path.
upsert_plan(c, s) ==
    LET w     == c.work
        newid == w.plan_seq + 1
    IN  IF PlansOn(w, s.date) = {}
        THEN [c EXCEPT !.work = [w EXCEPT !.plans = @ \cup {plan_row(newid, s)},
                                          !.plan_seq = newid],
                       !.lir = newid, !.writing = TRUE]
        ELSE [c EXCEPT !.work = [w EXCEPT !.plans = {IF p.date = s.date
                                                      THEN plan_row(p.id, s) ELSE p : p \in @},
                                          !.plan_seq = newid],
                       !.writing = TRUE]

\* SELECT id FROM meal_plans WHERE date=?
select_plan_id(w, date) == (CHOOSE p \in w.plans : p.date = date).id

\* line 393: plan_id = cur.lastrowid or SELECT ...; cur.lastrowid is the connection's
\* sqlite3_last_insert_rowid after the statement
resolve_plan_id(c, date) == IF c.lir # 0 THEN c.lir ELSE select_plan_id(c.work, date)

\* line 395
delete_items(c, plan_id) ==
    [c EXCEPT !.work = [@ EXCEPT !.items = {it \in @ : it.meal_plan_id # plan_id}]]

\* lines 397-410
insert_item(c, plan_id, idx, item) ==
    LET newid == c.work.item_seq + 1
    IN  [c EXCEPT !.work = [@ EXCEPT !.items = @ \cup
                                {[id |-> newid, meal_plan_id |-> plan_id, meal_index |-> idx,
                                  item_type |-> item.item_type, item_id |-> item.item_id,
                                  servings |-> item.servings, notes |-> item.notes]},
                             !.item_seq = newid],
                   !.lir = newid, !.writing = TRUE]

-----------------------------------------------------------------------------
(* Handlers that plan: routes.plan and routes.plan_week / cli.cmd_plan_week *)

\* a mutant of attempts: one more attempt
attempts_nine == 8 + 1

\* for _ in range(attempts)
attempts == 8

\* a mutant of gap_rounds: one more iteration of the gap filler
gap_rounds_three == 2 + 1

\* for _ in range(2): the iterations of the gap filler
gap_rounds == 2

\* with _conn() as conn: db.init_db(conn) on an initialised store; a new connection
\* has inserted nothing, so its sqlite3_last_insert_rowid is 0
connect == [open |-> TRUE, work |-> db, lir |-> 0, writing |-> FALSE]

\* POST /plan: one generate_daily_plan for date
plan ==
    /\ pc = "idle"
    /\ ops < MaxOps
    /\ \E date \in Dates, r \in StoreRequests :
          req' = [handler |-> "plan", start |-> date, days |-> 1] @@ r
    /\ conn' = connect
    /\ gen' = GenStart(0, <<>>)
    /\ sv' = SvIdle
    /\ hist' = [base |-> db, pre |-> db, op |-> NoOp]
    /\ pc' = "slots"
    /\ ops' = ops + 1
    /\ UNCHANGED <<crawl, catalog, db>>

\* POST /plan-week: generate_weekly_plan over days consecutive dates on one connection
\* (one day is what plan does; the model draws weeks of two days)
plan_week ==
    /\ pc = "idle"
    /\ ops < MaxOps
    /\ \E start \in Dates, days \in {2}, r \in StoreRequests :
          /\ start + days - 1 <= MaxDay
          /\ req' = [handler |-> "plan_week", start |-> start, days |-> days] @@ r
    /\ conn' = connect
    /\ gen' = GenStart(0, <<>>)
    /\ sv' = SvIdle
    /\ hist' = [base |-> db, pre |-> db, op |-> NoOp]
    /\ pc' = "slots"
    /\ ops' = ops + 1
    /\ UNCHANGED <<crawl, catalog, db>>

\* one iteration of the slot loop, lines 130-158
SlotStep ==
    /\ pc = "slots"
    /\ gen.meal_idx < req.meals_per_day
    /\ LET candidates == slot_candidates(req.exclusions, req.preferred_tags_per_meal,
                                         gen.meal_idx, gen.used_ids)
           picked == first_sorted(candidates, req.target_calories, req.meals_per_day, Targets)
       IN  gen' = IF candidates # <<>>
                  THEN [gen EXCEPT !.chosen = Append(@, picked),
                                   !.used_ids = @ \cup {picked.id},
                                   !.meal_idx = @ + 1]
                  ELSE [gen EXCEPT !.meal_idx = @ + 1]
    /\ UNCHANGED <<crawl, catalog, db, conn, pc, req, sv, hist, ops>>

\* the slot loop is over: lines 160-165
BuildItems ==
    /\ pc = "slots"
    /\ gen.meal_idx >= req.meals_per_day
    /\ LET items == [k \in 1..Len(gen.chosen) |-> recipe_item(gen.chosen[k])]
       IN  gen' = [gen EXCEPT !.items = items, !.totals = _totals(items),
                              !.prev_totals = _totals(items)]
    /\ pc' = "gap"
    /\ UNCHANGED <<crawl, catalog, db, conn, req, sv, hist, ops>>

\* one iteration of the gap filler, lines 167-226, or its end
GapStep ==
    /\ pc = "gap"
    /\ LET products    == filtered_products(req.exclusions)
           current_err == plan_error(gen.totals, req.target_calories, Targets)
           best        == best_product(products, [choice |-> <<>>, err |-> current_err],
                                       gen.totals, req.target_calories, Targets)
           items       == Append(gen.items,
                                 product_item(best.choice[1], gen.totals,
                                              req.target_calories, Targets))
       IN  IF products # <<>> /\ gen.iter < gap_rounds /\ gap_commits(best, current_err)
           THEN /\ gen' = [gen EXCEPT !.items = items, !.totals = _totals(items),
                                      !.prev_totals = gen.totals, !.iter = @ + 1]
                /\ pc' = "gap"
           ELSE /\ gen' = gen
                /\ pc' = "save"
    /\ UNCHANGED <<crawl, catalog, db, conn, req, sv, hist, ops>>

\* lines 229-242 and db.py 341-364: the call of save_meal_plan
SaveCall ==
    /\ pc = "save"
    /\ sv' = [date |-> Day, target_calories |-> req.target_calories,
              meals_per_day |-> req.meals_per_day, totals |-> gen.totals,
              items |-> [k \in 1..Len(gen.items) |->
                            [item_type |-> gen.items[k].item_type,
                             item_id |-> gen.items[k].item_id,
                             servings |-> gen.items[k].servings,
                             notes |-> gen.items[k].title]],
              macros_json |-> macros_json_of(req.target_calories, Targets, gen.totals),
              attempt |-> 0, delay_s |-> 20000, slept |-> <<>>, error |-> "none",
              plan_id |-> 0, idx |-> 0, state |-> "running"]
    /\ hist' = [hist EXCEPT !.pre = conn.work]
    /\ pc' = "upsert"
    /\ UNCHANGED <<crawl, catalog, db, conn, req, gen, ops>>

\* a mutant of SaveUpsert: the connection commits each statement as it runs
SaveUpsert_autocommit ==
    /\ pc = "upsert"
    /\ LET c == upsert_plan(conn, sv)
       IN  /\ conn' = c
           /\ db' = c.work
           /\ sv' = [sv EXCEPT !.plan_id = resolve_plan_id(c, sv.date)]
    /\ pc' = "delete"
    /\ UNCHANGED <<crawl, catalog, req, gen, hist, ops>>

\* the header upsert succeeds, lines 367-393
SaveUpsert ==
    /\ pc = "upsert"
    /\ LET c == upsert_plan(conn, sv)
       IN  /\ conn' = c
           /\ sv' = [sv EXCEPT !.plan_id = resolve_plan_id(c, sv.date)]
    /\ pc' = "delete"
    /\ UNCHANGED <<crawl, catalog, db, req, gen, hist, ops>>

\* a mutant of SaveUpsertBusy: the new delay is not capped
SaveUpsertBusy_uncapped ==
    /\ pc = "upsert"
    /\ ~conn.writing
    /\ LET after == [sv EXCEPT !.attempt = @ + 1,
                               !.slept = Append(@, sv.delay_s),
                               !.delay_s = (@ * 16) \div 10]
       IN  IF sv.attempt + 1 < attempts
           THEN /\ sv' = after
                /\ pc' = "upsert"
           ELSE /\ sv' = [after EXCEPT !.error = "busy", !.state = "raised"]
                /\ pc' = "raised"
    /\ UNCHANGED <<crawl, catalog, db, conn, req, gen, hist, ops>>

\* the header upsert meets a busy / locked store (another connection holds the write
\* lock, so this one holds none): lines 412-418, time.sleep(delay_s) and the new delay;
\* after the last attempt the loop ends and lines 420-421 raise last_err
SaveUpsertBusy ==
    /\ pc = "upsert"
    /\ ~conn.writing
    /\ LET after == [sv EXCEPT !.attempt = @ + 1,
                               !.slept = Append(@, sv.delay_s),
                               !.delay_s = Min(150000, (@ * 16) \div 10)]
       IN  IF sv.attempt + 1 < attempts
           THEN /\ sv' = after
                /\ pc' = "upsert"
           ELSE /\ sv' = [after EXCEPT !.error = "busy", !.state = "raised"]
                /\ pc' = "raised"
    /\ UNCHANGED <<crawl, catalog, db, conn, req, gen, hist, ops>>

\* a statement of save_meal_plan raises an error that is not busy / locked: line 419,
\* or an exception the except clause does not catch
SaveError ==
    /\ pc \in {"upsert", "delete", "insert"}
    /\ pc = "insert" => sv.idx < Len(sv.items)
    /\ sv' = [sv EXCEPT !.attempt = 0, !.delay_s = 0, !.slept = <<>>,
                        !.error = "other", !.state = "raised"]
    /\ pc' = "raised"
    /\ UNCHANGED <<crawl, catalog, db, conn, req, gen, hist, ops>>

\* line 395
SaveDelete ==
    /\ pc = "delete"
    /\ conn' = delete_items(conn, sv.plan_id)
    /\ pc' = "insert"
    /\ UNCHANGED <<crawl, catalog, db, req, gen, sv, hist, ops>>

\* one iteration of lines 396-410
SaveInsert ==
    /\ pc = "insert"
    /\ sv.idx < Len(sv.items)
    /\ conn' = insert_item(conn, sv.plan_id, sv.idx, sv.items[sv.idx + 1])
    /\ sv' = [sv EXCEPT !.idx = @ + 1]
    /\ UNCHANGED <<crawl, catalog, db, pc, req, gen, hist, ops>>

\* line 411, generate_daily_plan's return and the loop of generate_weekly_plan
SaveReturn ==
    /\ pc = "insert"
    /\ sv.idx = Len(sv.items)
    /\ sv' = [sv EXCEPT !.attempt = 0, !.delay_s = 0, !.slept = <<>>, !.state = "returned"]
    /\ LET out == Append(gen.out, <<Day, sv.plan_id, gen.totals>>)
       IN  IF gen.i + 1 < req.days
           THEN /\ gen' = GenStart(gen.i + 1, out)
                /\ pc' = "slots"
           ELSE /\ gen' = [gen EXCEPT !.out = out]
                /\ pc' = "exit"
    /\ UNCHANGED <<crawl, catalog, db, conn, req, hist, ops>>

\* connect(), lines 34-36: the context is left, by return or by exception:
\* conn.commit() and conn.close()
connect_exit ==
    /\ pc \in {"exit", "raised"}
    /\ db' = conn.work
    /\ conn' = Closed
    /\ pc' = "idle"
    /\ UNCHANGED <<crawl, catalog, req, gen, sv, hist, ops>>

-----------------------------------------------------------------------------
(* The plan mutator (web/routes.py): update_servings, alternatives, and the
   recomputation of the totals *)

RecipeColumn ==
    [calories |-> "kcal_per_serving", protein_g |-> "protein_g_per_serving",
     carbs_g |-> "carbs_g_per_serving", fat_g |-> "fat_g_per_serving"]

ProductColumn ==
    [calories |-> "kcal_per_100", protein_g |-> "protein_g_per_100",
     carbs_g |-> "carbs_g_per_100", fat_g |-> "fat_g_per_100"]

\* what one item adds to a total, lines 358-373: nothing when its catalogue row is gone
contribution(item, key) ==
    LET rows == IF item.item_type = "recipe"
                THEN {r \in Range(catalog.recipes) : r.id = item.item_id}
                ELSE IF item.item_type = "product"
                THEN {r \in Range(catalog.products) : r.id = item.item_id}
                ELSE {}
        column == IF item.item_type = "recipe" THEN RecipeColumn[key] ELSE ProductColumn[key]
    IN  IF rows = {} THEN 0
        ELSE Times((CHOOSE r \in rows : TRUE)[column], item.servings)

RECURSIVE total_of(_, _)
total_of(plan_items, key) ==
    IF plan_items = {} THEN 0
    ELSE LET item == CHOOSE x \in plan_items : TRUE
         IN  contribution(item, key) + total_of(plan_items \ {item}, key)

\* lines 348-379: the totals columns of the plan row with this id, from its items
_recalculate_plan_totals(d, plan_id) ==
    LET plan_items == ItemsOf(d, plan_id)
    IN  [d EXCEPT !.plans =
            {IF p.id = plan_id
             THEN [p EXCEPT !.total_calories = total_of(plan_items, "calories"),
                            !.total_protein  = total_of(plan_items, "protein_g"),
                            !.total_carbs    = total_of(plan_items, "carbs_g"),
                            !.total_fat      = total_of(plan_items, "fat_g")]
             ELSE p : p \in @}]

\* the ids a request may name: those of the rows, and 0 for an id with no row
ItemIds == {it.id : it \in db.items} \cup {0}
PlanIds == {p.id : p \in db.plans} \cup {0}
RecipeIds == {r.id : r \in Range(catalog.recipes)} \cup {0}

\* servings values a re-serve request may carry: 0.5 and 2.0
ServingsChoices == {5000, 20000}

\* lines 389-400 on a database d
update_servings_on(d, item_id, servings) ==
    LET d1 == [d EXCEPT !.items = {IF it.id = item_id THEN [it EXCEPT !.servings = servings]
                                   ELSE it : it \in @}]
        item_row == {it \in d1.items : it.id = item_id}
    IN  IF item_row = {} THEN d1
        ELSE _recalculate_plan_totals(d1, (CHOOSE it \in item_row : TRUE).meal_plan_id)

\* lines 758-761 on a database d
alternatives_on(d, item_id, plan_id, new_recipe_id) ==
    LET d1 == [d EXCEPT !.items = {IF it.id = item_id THEN [it EXCEPT !.item_id = new_recipe_id]
                                   ELSE it : it \in @}]
    IN  _recalculate_plan_totals(d1, plan_id)

\* POST /plan/item/<item_id>/servings?date=...: the whole handler, commit included
update_servings ==
    /\ pc = "idle"
    /\ ops < MaxOps
    /\ \E item_id \in ItemIds, servings \in ServingsChoices :
          /\ db' = update_servings_on(db, item_id, servings)
          /\ hist' = [base |-> db, pre |-> db,
                      op |-> [kind |-> "update_servings", item_id |-> item_id, plan_id |-> 0,
                              recipe_id |-> 0, servings |-> servings,
                              busy |-> FALSE, attempts_made |-> 1]]
    /\ req' = NoReq
    /\ gen' = GenStart(0, <<>>)
    /\ sv' = SvIdle
    /\ ops' = ops + 1
    /\ UNCHANGED <<crawl, catalog, conn, pc>>

\* POST /alternatives/<item_id>/<plan_id> with recipe_id: the whole handler, commit included
alternatives ==
    /\ pc = "idle"
    /\ ops < MaxOps
    /\ \E item_id \in ItemIds, plan_id \in PlanIds, new_recipe_id \in RecipeIds :
          /\ db' = alternatives_on(db, item_id, plan_id, new_recipe_id)
          /\ hist' = [base |-> db, pre |-> db,
                      op |-> [kind |-> "alternatives", item_id |-> item_id, plan_id |-> plan_id,
                              recipe_id |-> new_recipe_id, servings |-> 0,
                              busy |-> FALSE, attempts_made |-> 1]]
    /\ req' = NoReq
    /\ gen' = GenStart(0, <<>>)
    /\ sv' = SvIdle
    /\ ops' = ops + 1
    /\ UNCHANGED <<crawl, catalog, conn, pc>>

\* update_servings when its UPDATE (line 391) meets a busy / locked store: the handler
\* has no except clause, the OperationalError leaves it and the context of connect()
\* with nothing written
update_servings_busy ==
    /\ pc = "idle"
    /\ ops < MaxOps
    /\ \E item_id \in ItemIds, servings \in ServingsChoices :
          hist' = [base |-> db, pre |-> db,
                   op |-> [kind |-> "update_servings", item_id |-> item_id, plan_id |-> 0,
                           recipe_id |-> 0, servings |-> servings,
                           busy |-> TRUE, attempts_made |-> 1]]
    /\ req' = NoReq
    /\ gen' = GenStart(0, <<>>)
    /\ sv' = SvIdle
    /\ ops' = ops + 1
    /\ UNCHANGED <<crawl, catalog, db, conn, pc>>

\* alternatives when its UPDATE (line 759) meets a busy / locked store: as above
alternatives_busy ==
    /\ pc = "idle"
    /\ ops < MaxOps
    /\ \E item_id \in ItemIds, plan_id \in PlanIds, new_recipe_id \in RecipeIds :
          hist' = [base |-> db, pre |-> db,
                   op |-> [kind |-> "alternatives", item_id |-> item_id, plan_id |-> plan_id,
                           recipe_id |-> new_recipe_id, servings |-> 0,
                           busy |-> TRUE, attempts_made |-> 1]]
    /\ req' = NoReq
    /\ gen' = GenStart(0, <<>>)
    /\ sv' = SvIdle
    /\ ops' = ops + 1
    /\ UNCHANGED <<crawl, catalog, db, conn, pc>>

\* limit 10 of the query of lines 780-787
similar_limit == 10

\* every order of the rows of S with the larger key first, key a function on S (rows
\* with equal keys come in an order the query does not fix)
Orderings(S, key) ==
    {q \in [1..Cardinality(S) -> S] :
        /\ \A i \in DOMAIN q, j \in DOMAIN q : i # j => q[i] # q[j]
        /\ \A i \in DOMAIN q, j \in DOMAIN q : i < j => key[q[i]] >= key[q[j]]}

\* count(r.id) of the group of recipe c: its recipe_tags rows whose tag is in tag_names
tag_row_count(c, tag_names) ==
    Cardinality({k \in 1..Len(c.tags) : c.tags[k] \in tag_names})

\* the results the query of lines 780-787 may return for the recipe r
similar_recipes(r) ==
    LET tag_names == Range(r.tags)
        groups    == {c \in Range(catalog.recipes) :
                         c.id # r.id /\ tag_row_count(c, tag_names) >= 1}
        count     == [c \in groups |-> tag_row_count(c, tag_names)]
    IN  {SubSeq(q, 1, Min(similar_limit, Len(q))) : q \in Orderings(groups, count)}

\* GET /alternatives/<item_id>/<plan_id>, lines 764-789; gen.out is the list the page
\* is rendered with, hist.op.recipe_id the id of the recipe the item names (0: the
\* handler answered with an error before the query)
alternatives_get ==
    /\ pc = "idle"
    /\ ops < MaxOps
    /\ \E item_id \in ItemIds, plan_id \in PlanIds :
          LET item == {it \in db.items : it.id = item_id}
              r    == {c \in Range(catalog.recipes) :
                          \E it \in item : c.id = it.item_id}
              op   == [kind |-> "alternatives_get", item_id |-> item_id, plan_id |-> plan_id,
                       recipe_id |-> 0, servings |-> 0, busy |-> FALSE, attempts_made |-> 0]
          IN  IF r = {}
              THEN /\ gen' = GenStart(0, <<>>)
                   /\ hist' = [base |-> db, pre |-> db, op |-> op]
              ELSE LET row == CHOOSE c \in r : TRUE
                   IN  /\ \E similar \in (IF row.tags = <<>> THEN {<<>>}
                                          ELSE similar_recipes(row)) :
                             gen' = [GenStart(0, <<>>) EXCEPT !.out = similar]
                       /\ hist' = [base |-> db, pre |-> db,
                                   op |-> [op EXCEPT !.recipe_id = row.id]]
    /\ req' = NoReq
    /\ sv' = SvIdle
    /\ ops' = ops + 1
    /\ UNCHANGED <<crawl, catalog, db, conn, pc>>

-----------------------------------------------------------------------------
(* The admin crawl jobs (web/routes.py 556-629) *)

\* two of the four job kinds; etm_foods and etm_recipes run as recipes does
Jobs == {"recipes", "nutrition"}

\* the request threads of the web server that call _start_crawl
Callers == {1, 2}

\* deque(maxlen=200)
log_maxlen == 200

\* an entry of _crawl_state, lines 557-560; last is "None" or the error of an event
JobIdle ==
    [running |-> FALSE, processed |-> 0, errors |-> 0, started_at |-> None,
     finished_at |-> None, last |-> "None"]

CallerIdle == [pc |-> "idle", job |-> "none", result |-> "none"]

\* the module as imported: no job runs, the logs are empty, the lock is free (<<>>);
\* clock is what time.time() returns next, requests counts the POST /admin requests
CrawlStart ==
    [state    |-> [j \in Jobs |-> JobIdle],
     logs     |-> [j \in Jobs |-> <<>>],
     lock     |-> <<>>,
     callers  |-> [c \in Callers |-> CallerIdle],
     threads  |-> <<>>,
     clock    |-> 0,
     requests |-> 0]

\* the variables of the planner and the store, which the crawl jobs leave alone
store_vars == <<catalog, db, conn, pc, req, gen, sv, hist, ops>>

\* deque.appendleft on a deque of maxlen log_maxlen
appendleft(log, ev) ==
    LET longer == <<ev>> \o log
    IN  IF Len(longer) > log_maxlen THEN SubSeq(longer, 1, log_maxlen) ELSE longer

\* POST /admin with a crawl job, lines 632-698: the request thread c enters _start_crawl
admin_post(c) ==
    /\ crawl.callers[c].pc = "idle"
    /\ crawl.requests < MaxCrawlRequests
    /\ \E job \in Jobs :
          crawl' = [crawl EXCEPT !.callers[c] = [pc |-> "lock", job |-> job, result |-> "none"],
                                 !.requests = @ + 1]
    /\ UNCHANGED store_vars

\* line 573: with _crawl_lock
StartLock(c) ==
    /\ crawl.callers[c].pc = "lock"
    /\ crawl.lock = <<>>
    /\ crawl' = [crawl EXCEPT !.lock = <<"caller", c>>, !.callers[c].pc = "check"]
    /\ UNCHANGED store_vars

\* a mutant of StartCheck: the running flag is not tested
StartCheck_no_test(c) ==
    /\ crawl.callers[c].pc = "check"
    /\ crawl' = [crawl EXCEPT !.callers[c].pc = "update"]
    /\ UNCHANGED store_vars

\* lines 574-575: if state["running"]: return False (the lock is released on the way out)
StartCheck(c) ==
    /\ crawl.callers[c].pc = "check"
    /\ crawl' = IF crawl.state[crawl.callers[c].job].running
                THEN [crawl EXCEPT !.lock = <<>>,
                                   !.callers[c].pc = "idle",
                                   !.callers[c].result = "refused"]
                ELSE [crawl EXCEPT !.callers[c].pc = "update"]
    /\ UNCHANGED store_vars

\* lines 576-577 and the end of the with block
StartUpdate(c) ==
    /\ crawl.callers[c].pc = "update"
    /\ LET job == crawl.callers[c].job
       IN  crawl' = [crawl EXCEPT !.state[job] = [running |-> TRUE, processed |-> 0,
                                                  errors |-> 0, started_at |-> crawl.clock,
                                                  finished_at |-> None, last |-> "None"],
                                  !.logs[job] = <<>>,
                                  !.clock = @ + 1,
                                  !.lock = <<>>,
                                  !.callers[c].pc = "spawn"]
    /\ UNCHANGED store_vars

\* lines 627-629: the thread is started and _start_crawl returns True; sent counts the
\* calls of progress the thread has completed
StartThread(c) ==
    /\ crawl.callers[c].pc = "spawn"
    /\ crawl' = [crawl EXCEPT !.threads = Append(@, [job |-> crawl.callers[c].job,
                                                     pc |-> "open", sent |-> 0,
                                                     status |-> "none"]),
                              !.callers[c].pc = "idle",
                              !.callers[c].result = "started"]
    /\ UNCHANGED store_vars

Threads == DOMAIN crawl.threads

\* a mutant of RunOpen: a failure to open the database ends the thread at once
RunOpen_no_finally(t) ==
    /\ t \in Threads
    /\ crawl.threads[t].pc = "open"
    /\ \E opened \in BOOLEAN :
          crawl' = [crawl EXCEPT !.threads[t].pc = IF opened THEN "crawl" ELSE "done"]
    /\ UNCHANGED store_vars

\* lines 592-593: with _conn() as conn: db.init_db(conn), which succeed or raise
RunOpen(t) ==
    /\ t \in Threads
    /\ crawl.threads[t].pc = "open"
    /\ \E opened \in BOOLEAN :
          crawl' = [crawl EXCEPT !.threads[t].pc = IF opened THEN "crawl" ELSE "finally"]
    /\ UNCHANGED store_vars

\* the crawl function reports an event: progress / nprogress is called, lines 579-581
ProgressCall(t) ==
    /\ t \in Threads
    /\ crawl.threads[t].pc = "crawl"
    /\ crawl.threads[t].sent < MaxEvents
    /\ \E status \in {"ok", "error"} :
          crawl' = [crawl EXCEPT !.threads[t].pc = "progress", !.threads[t].status = status]
    /\ UNCHANGED store_vars

\* line 582: with _crawl_lock
ProgressLock(t) ==
    /\ t \in Threads
    /\ crawl.threads[t].pc = "progress"
    /\ crawl.lock = <<>>
    /\ crawl' = [crawl EXCEPT !.lock = <<"thread", t>>, !.threads[t].pc = "count"]
    /\ UNCHANGED store_vars

\* lines 583-588 and the return of progress
ProgressCount(t) ==
    /\ t \in Threads
    /\ crawl.threads[t].pc = "count"
    /\ LET job    == crawl.threads[t].job
           status == crawl.threads[t].status
           ev     == [status |-> status, error |-> IF status = "ok" THEN "None" ELSE "boom"]
       IN  crawl' = [crawl EXCEPT
                        !.state[job] = IF status = "ok"
                                       THEN [@ EXCEPT !.processed = @ + 1]
                                       ELSE [@ EXCEPT !.errors = @ + 1, !.last = ev.error],
                        !.logs[job] = appendleft(@, ev),
                        !.lock = <<>>,
                        !.threads[t].pc = "crawl",
                        !.threads[t].sent = @ + 1,
                        !.threads[t].status = "none"]
    /\ UNCHANGED store_vars

\* the crawl function returns or raises, lines 594-621
CrawlEnd(t) ==
    /\ t \in Threads
    /\ crawl.threads[t].pc = "crawl"
    /\ crawl' = [crawl EXCEPT !.threads[t].pc = "finally"]
    /\ UNCHANGED store_vars

\* lines 622-623: finally: with _crawl_lock
FinallyLock(t) ==
    /\ t \in Threads
    /\ crawl.threads[t].pc = "finally"
    /\ crawl.lock = <<>>
    /\ crawl' = [crawl EXCEPT !.lock = <<"thread", t>>, !.threads[t].pc = "clear"]
    /\ UNCHANGED store_vars

\* lines 624-625 and the end of the thread
FinallyClear(t) ==
    /\ t \in Threads
    /\ crawl.threads[t].pc = "clear"
    /\ crawl' = [crawl EXCEPT !.state[crawl.threads[t].job].running = FALSE,
                              !.state[crawl.threads[t].job].finished_at = crawl.clock,
                              !.clock = @ + 1,
                              !.lock = <<>>,
                              !.threads[t].pc = "done"]
    /\ UNCHANGED store_vars

-----------------------------------------------------------------------------
(* Specifications *)

\* the application on an initialised, empty store
Init ==
    /\ catalog = StoreCatalog
    /\ db = EmptyDb
    /\ conn = Closed
    /\ pc = "idle"
    /\ req = NoReq
    /\ gen = GenStart(0, <<>>)
    /\ sv = SvIdle
    /\ hist = [base |-> EmptyDb, pre |-> EmptyDb, op |-> NoOp]
    /\ ops = 0
    /\ crawl = CrawlStart

Next ==
    \/ plan
    \/ plan_week
    \/ SlotStep
    \/ BuildItems
    \/ GapStep
    \/ SaveCall
    \/ SaveUpsert
    \/ SaveUpsertBusy
    \/ SaveError
    \/ SaveDelete
    \/ SaveInsert
    \/ SaveReturn
    \/ connect_exit
    \/ update_servings
    \/ alternatives
    \/ update_servings_busy
    \/ alternatives_busy

Spec == Init /\ [][Next]_vars

\* one call of generate_daily_plan, its catalogue and arguments drawn from the pools
InitPlan ==
    /\ catalog \in Catalogs
    /\ db = EmptyDb
    /\ conn = [open |-> TRUE, work |-> EmptyDb, lir |-> 0, writing |-> FALSE]
    /\ pc = "slots"
    /\ req \in {[handler |-> "generate_daily_plan", start |-> 1, days |-> 1] @@ r :
                    r \in PlanRequests}
    /\ gen = GenStart(0, <<>>)
    /\ sv = SvIdle
    /\ hist = [base |-> EmptyDb, pre |-> EmptyDb, op |-> NoOp]
    /\ ops = 1
    /\ crawl = CrawlStart

NextPlan ==
    \/ SlotStep
    \/ BuildItems
    \/ GapStep
    \/ SaveCall
    \/ SaveUpsert
    \/ SaveDelete
    \/ SaveInsert
    \/ SaveReturn
    \/ connect_exit

SpecPlan == InitPlan /\ [][NextPlan]_vars

\* one call of generate_daily_plan on a catalogue that may hold a product without calories
InitGap ==
    /\ catalog \in GapCatalogs
    /\ db = EmptyDb
    /\ conn = [open |-> TRUE, work |-> EmptyDb, lir |-> 0, writing |-> FALSE]
    /\ pc = "slots"
    /\ req \in {[handler |-> "generate_daily_plan", start |-> 1, days |-> 1] @@ r :
                    r \in PlanRequests}
    /\ gen = GenStart(0, <<>>)
    /\ sv = SvIdle
    /\ hist = [base |-> EmptyDb, pre |-> EmptyDb, op |-> NoOp]
    /\ ops = 1
    /\ crawl = CrawlStart

SpecGap == InitGap /\ [][NextPlan]_vars

\* one POST /plan on an empty store, whose save may meet a busy store or an error; the
\* handler's thread keeps running until the request is answered
InitSave ==
    /\ catalog = StoreCatalog
    /\ db = EmptyDb
    /\ conn = [open |-> TRUE, work |-> EmptyDb, lir |-> 0, writing |-> FALSE]
    /\ pc = "slots"
    /\ req \in {[handler |-> "plan", start |-> date, days |-> 1] @@ r :
                    date \in Dates, r \in StoreRequests}
    /\ gen = GenStart(0, <<>>)
    /\ sv = SvIdle
    /\ hist = [base |-> EmptyDb, pre |-> EmptyDb, op |-> NoOp]
    /\ ops = 1
    /\ crawl = CrawlStart

NextSave ==
    \/ SlotStep
    \/ BuildItems
    \/ GapStep
    \/ SaveCall
    \/ SaveUpsert
    \/ SaveUpsertBusy
    \/ SaveError
    \/ SaveDelete
    \/ SaveInsert
    \/ SaveReturn
    \/ connect_exit

\* the steps of save_meal_plan itself
SaveStep ==
    \/ SaveUpsert
    \/ SaveUpsertBusy
    \/ SaveError
    \/ SaveDelete
    \/ SaveInsert
    \/ SaveReturn

SpecSave == InitSave /\ [][NextSave]_vars /\ WF_vars(SaveStep)

\* the recipe_tags rows a recipe may have: none, one, the same tag three times, two tags,
\* a tag in another case
TagRows == {<<>>, <<lunch>>, <<lunch, lunch, lunch>>, <<lunch, diner>>, <<Lunch>>}

\* the recipes of the store with every choice of tag rows, and one product
TagCatalogs ==
    {[recipes  |-> [k \in 1..Len(StoreCatalog.recipes) |->
                        [StoreCatalog.recipes[k] EXCEPT !.tags = t[k]]],
      products |-> SubSeq(ProductPool, 1, 1)] : t \in [1..Len(StoreCatalog.recipes) -> TagRows]}

\* a plan with every recipe of the catalogue is generated and stored, then the
\* substitution page of one of its items is requested
InitAlt ==
    /\ catalog \in TagCatalogs
    /\ db = EmptyDb
    /\ conn = [open |-> TRUE, work |-> EmptyDb, lir |-> 0, writing |-> FALSE]
    /\ pc = "slots"
    /\ req = [handler |-> "plan", start |-> 1, days |-> 1, target_calories |-> 72000,
              meals_per_day |-> 3, macro_targets |-> NoTargets, exclusions |-> <<>>,
              preferred_tags_per_meal |-> <<>>]
    /\ gen = GenStart(0, <<>>)
    /\ sv = SvIdle
    /\ hist = [base |-> EmptyDb, pre |-> EmptyDb, op |-> NoOp]
    /\ ops = 1
    /\ crawl = CrawlStart

NextAlt ==
    \/ SlotStep
    \/ BuildItems
    \/ GapStep
    \/ SaveCall
    \/ SaveUpsert
    \/ SaveDelete
    \/ SaveInsert
    \/ SaveReturn
    \/ connect_exit
    \/ alternatives_get

SpecAlt == InitAlt /\ [][NextAlt]_vars

\* the admin page used by two request threads at once; a started thread runs on, and
\* whoever holds or waits for _crawl_lock gets on
InitCrawl ==
    /\ catalog = StoreCatalog
    /\ db = EmptyDb
    /\ conn = Closed
    /\ pc = "idle"
    /\ req = NoReq
    /\ gen = GenStart(0, <<>>)
    /\ sv = SvIdle
    /\ hist = [base |-> EmptyDb, pre |-> EmptyDb, op |-> NoOp]
    /\ ops = 0
    /\ crawl = CrawlStart

NextCrawl ==
    \/ \E c \in Callers : admin_post(c)
    \/ \E c \in Callers : StartLock(c)
    \/ \E c \in Callers : StartCheck(c)
    \/ \E c \in Callers : StartUpdate(c)
    \/ \E c \in Callers : StartThread(c)
    \/ \E t \in 1..MaxCrawlRequests : RunOpen(t)
    \/ \E t \in 1..MaxCrawlRequests : ProgressCall(t)
    \/ \E t \in 1..MaxCrawlRequests : ProgressLock(t)
    \/ \E t \in 1..MaxCrawlRequests : ProgressCount(t)
    \/ \E t \in 1..MaxCrawlRequests : CrawlEnd(t)
    \/ \E t \in 1..MaxCrawlRequests : FinallyLock(t)
    \/ \E t \in 1..MaxCrawlRequests : FinallyClear(t)

\* the steps a request thread takes inside _start_crawl
StartStep(c) == StartLock(c) \/ StartCheck(c) \/ StartUpdate(c) \/ StartThread(c)

\* the steps of a crawl thread that are not the crawl function's own
RunStep(t) == RunOpen(t) \/ ProgressLock(t) \/ ProgressCount(t) \/ FinallyLock(t) \/ FinallyClear(t)

SpecCrawl ==
    /\ InitCrawl
    /\ [][NextCrawl]_vars
    /\ \A c \in Callers : WF_vars(StartStep(c))
    /\ \A t \in 1..MaxCrawlRequests : WF_vars(RunStep(t))

-----------------------------------------------------------------------------
(* Properties of the stored plans (specification Spec) *)

\* the totals columns of every plan row of d are the sums over the plan's items of
\* catalogue value times servings, within 0.1
TotalsMatchItems(d) ==
    \A p \in d.plans :
        LET plan_items == ItemsOf(d, p.id)
        IN  /\ Abs(p.total_calories - total_of(plan_items, "calories")) <= 10
            /\ Abs(p.total_protein - total_of(plan_items, "protein_g")) <= 10
            /\ Abs(p.total_carbs - total_of(plan_items, "carbs_g")) <= 10
            /\ Abs(p.total_fat - total_of(plan_items, "fat_g")) <= 10

\* C1: when a generation, a re-serve or a substitution has completed on a store whose
\* totals matched the items, every stored plan's totals still equal the sums over its
\* items, within 0.1
C1_TotalsMatchItems ==
    (/\ pc = "idle"
     /\ hist.op.kind # "none" \/ sv.state = "returned"
     /\ TotalsMatchItems(hist.base))
        => TotalsMatchItems(db)

\* the store as the saving connection sees it, or as it was committed once that
\* connection is closed
Stored == IF conn.open THEN conn.work ELSE db

\* the plan a call of save_meal_plan was given: its header and its item list
NewPlanView ==
    [headers |-> {HeaderContent(plan_row(0, sv))},
     items   |-> {[meal_index |-> k - 1, item_type |-> sv.items[k].item_type,
                   item_id |-> sv.items[k].item_id, servings |-> sv.items[k].servings,
                   notes |-> sv.items[k].notes] : k \in 1..Len(sv.items)}]

\* C2: after a plan was generated for a date that already had one, the date has one
\* plan row and the items of that plan are exactly the item list of the new generation
C2_RegenerateReplacesItems ==
    (sv.state = "returned" /\ PlansOn(hist.pre, sv.date) # {})
        => /\ Cardinality(PlansOn(Stored, sv.date)) = 1
           /\ ReaderView(Stored, sv.date) = NewPlanView

\* C3: the plan id save_meal_plan deletes from, inserts under and returns is the id of
\* the meal_plans row of its date
C3_PlanIdIsRowOfDate ==
    (pc \in {"delete", "insert"} \/ sv.state = "returned")
        => sv.plan_id = select_plan_id(Stored, sv.date)

\* C4: after a failed save_meal_plan and the exit of the connection context, the
\* stored header and items of that date are what they were before the call
C4_FailedSaveChangesNothing ==
    (pc = "idle" /\ sv.state = "raised")
        => ReaderView(db, sv.date) = ReaderView(hist.pre, sv.date)

\* C5: while save_meal_plan runs, another connection reads for its date either the
\* complete plan stored before or the complete new plan
C5_ReaderSeesWholePlan ==
    pc \in {"upsert", "delete", "insert"}
        => ReaderView(db, sv.date) \in {ReaderView(hist.base, sv.date), NewPlanView}

\* the writer has replaced the header of an existing plan and inserted some of the new
\* items, and its own view of the date differs from what other connections read
C5_Witness ==
    /\ pc = "insert"
    /\ PlansOn(db, sv.date) # {}
    /\ sv.idx >= 1
    /\ sv.idx < Len(sv.items)
    /\ ReaderView(conn.work, sv.date) # ReaderView(db, sv.date)

\* no recipe id is on two recipe items of one plan of d
RecipesOncePerPlan(d) ==
    \A a \in d.items, b \in d.items :
        (/\ a.id # b.id
         /\ a.meal_plan_id = b.meal_plan_id
         /\ a.item_type = "recipe"
         /\ b.item_type = "recipe")
            => a.item_id # b.item_id

\* C8: a substitution on a store where no plan holds a recipe twice leaves no plan
\* holding a recipe twice
C8_SubstituteKeepsRecipesUnique ==
    (pc = "idle" /\ hist.op.kind = "alternatives" /\ RecipesOncePerPlan(hist.pre))
        => RecipesOncePerPlan(db)

-----------------------------------------------------------------------------
(* Properties of one generate_daily_plan call (specification SpecPlan) *)

\* no term of the request's exclusion list is, case-insensitively, a substring of text
NoExcludedTerm(text) ==
    \A k \in 1..Len(req.exclusions) : ~Contains(lower(text), lower(req.exclusions[k]))

\* C6: no chosen recipe, no item of the generated plan and no persisted item has a
\* title or name that contains an excluded term, case-insensitively
C6_ExcludedNeverPlanned ==
    /\ \A k \in 1..Len(gen.chosen) : NoExcludedTerm(gen.chosen[k].title)
    /\ \A k \in 1..Len(gen.items) : NoExcludedTerm(gen.items[k].title)
    /\ \A it \in conn.work.items \cup db.items : NoExcludedTerm(it.notes)

\* a plan was persisted for a request with exclusions, from a catalogue holding an
\* excluded product and an excluded recipe that a slot's tag preference reaches
C6_Witness ==
    /\ pc = "exit"
    /\ req.exclusions # <<>>
    /\ conn.work.items # {}
    /\ \E p \in Range(catalog.products) : ~NoExcludedTerm(p.name)
    /\ \E r \in Range(catalog.recipes), m \in 0..(req.meals_per_day - 1) :
          /\ ~NoExcludedTerm(r.title)
          /\ \E k \in 1..Len(r.tags) :
                lower(r.tags[k]) \in slot_tags(req.preferred_tags_per_meal, m)

\* the positions of the recipe items / product items of the plan being generated
RecipeItems == {k \in 1..Len(gen.items) : gen.items[k].item_type = "recipe"}
ProductItems == {k \in 1..Len(gen.items) : gen.items[k].item_type = "product"}

\* C7: no recipe id is chosen twice, and none is on two recipe items of the generated
\* or of the persisted plan
C7_NoRecipeTwice ==
    /\ \A i \in 1..Len(gen.chosen), j \in 1..Len(gen.chosen) :
          i # j => gen.chosen[i].id # gen.chosen[j].id
    /\ \A i \in RecipeItems, j \in RecipeItems :
          i # j => gen.items[i].item_id # gen.items[j].item_id
    /\ RecipesOncePerPlan(conn.work)

\* a plan with two recipe items was persisted for a request whose first two slots carry
\* the same tag preference
C7_Witness ==
    /\ pc = "exit"
    /\ Cardinality(RecipeItems) >= 2
    /\ Cardinality(ItemsOf(conn.work, sv.plan_id)) >= 2
    /\ slot_tags(req.preferred_tags_per_meal, 0) # {}
    /\ slot_tags(req.preferred_tags_per_meal, 0) = slot_tags(req.preferred_tags_per_meal, 1)

C10_CommitLowersError ==
    (pc \in {"gap", "save"} /\ gen.iter >= 1)
        => plan_error(gen.totals, req.target_calories, Targets)
              < plan_error(gen.prev_totals, req.target_calories, Targets)

-----------------------------------------------------------------------------
(* Properties of the plan mutator (specification Spec) *)

\* a re-serve or a substitution has run to its end on the store hist.pre, whose totals
\* matched its items
Mutated(kind) ==
    pc = "idle" /\ hist.op.kind = kind /\ ~hist.op.busy /\ TotalsMatchItems(hist.pre)

\* the rows of meal_plan_items of d with this id (at most one)
ItemRows(d, item_id) == {it \in d.items : it.id = item_id}

\* the rows of recipes with this id (at most one)
RecipeRows(recipe_id) == {r \in Range(catalog.recipes) : r.id = recipe_id}

\* the totals columns of the plan row with this id are the sums over its items
TotalsRecomputed(d, plan_id) ==
    \A p \in d.plans :
        p.id = plan_id
            => /\ p.total_calories = total_of(ItemsOf(d, plan_id), "calories")
               /\ p.total_protein = total_of(ItemsOf(d, plan_id), "protein_g")
               /\ p.total_carbs = total_of(ItemsOf(d, plan_id), "carbs_g")
               /\ p.total_fat = total_of(ItemsOf(d, plan_id), "fat_g")

\* C11: after a substitution of a recipe item by a recipe of the catalogue, the item
\* references that recipe and the totals of the plan that owns the item are the sums
\* over its items, whatever plan id came with the request
C11_SubstituteRecomputesOwner ==
    (/\ Mutated("alternatives")
     /\ RecipeRows(hist.op.recipe_id) # {}
     /\ \E it \in ItemRows(hist.pre, hist.op.item_id) : it.item_type = "recipe")
        => \A it \in ItemRows(db, hist.op.item_id) :
              /\ it.item_id = hist.op.recipe_id
              /\ TotalsRecomputed(db, it.meal_plan_id)

\* C12: a re-serve or a substitution that names an item id with no row, or a
\* replacement recipe id with no row, changes no stored item and no plan row
C12_UnmatchedIdChangesNothing ==
    (/\ Mutated("update_servings") \/ Mutated("alternatives")
     /\ \/ ItemRows(hist.pre, hist.op.item_id) = {}
        \/ hist.op.kind = "alternatives" /\ RecipeRows(hist.op.recipe_id) = {})
        => /\ db.items = hist.pre.items
           /\ db.plans = hist.pre.plans

\* C13: a substitution invoked on a product item changes no stored item and no plan row
C13_SubstituteSparesProducts ==
    (/\ Mutated("alternatives")
     /\ \E it \in ItemRows(hist.pre, hist.op.item_id) : it.item_type = "product")
        => /\ db.items = hist.pre.items
           /\ db.plans = hist.pre.plans

\* C14: re-serving a recipe item from s to s' changes the total_calories of its plan by
\* (s' - s) times the recipe's kcal per serving, and changes nothing of any other item
C14_ReserveAddsDelta ==
    Mutated("update_servings")
        => \A old \in ItemRows(hist.pre, hist.op.item_id) : \A r \in RecipeRows(old.item_id) :
              old.item_type = "recipe"
                  => /\ \A p \in db.plans, q \in hist.pre.plans :
                           (p.id = old.meal_plan_id /\ q.id = old.meal_plan_id)
                               => p.total_calories - q.total_calories
                                     = ((hist.op.servings - old.servings) * r.kcal_per_serving)
                                           \div 10000
                     /\ {it \in db.items : it.id # old.id}
                           = {it \in hist.pre.items : it.id # old.id}

\* C17: a re-serve or a substitution that met a busy / locked store ran its statement
\* again before it gave up
C17_MutationRetriesOnBusy ==
    (/\ hist.op.kind \in {"update_servings", "alternatives"}
     /\ hist.op.busy
     /\ ItemRows(db, hist.op.item_id) # {})
        => hist.op.attempts_made > 1

\* C20: when generate_weekly_plan returns, it returns one entry per day, dated
\* start, start + 1, ... in order, and each of those dates has exactly one stored plan,
\* whose id is the plan id of its entry
C20_WeekEntriesNameStoredPlans ==
    (pc = "exit" /\ req.handler = "plan_week")
        => /\ Len(gen.out) = req.days
           /\ \A k \in 1..Len(gen.out) :
                 /\ gen.out[k][1] = req.start + k - 1
                 /\ Cardinality(PlansOn(conn.work, gen.out[k][1])) = 1
                 /\ \A p \in PlansOn(conn.work, gen.out[k][1]) : p.id = gen.out[k][2]

-----------------------------------------------------------------------------
(* Properties of one save_meal_plan call (specification SpecSave) *)

\* C15: save_meal_plan ends by returning or raising; the attempt it is making is at
\* most the 8th; an error that is not busy / locked is raised, never retried; a busy
\* error is raised only after 8 busy attempts, and then no plan id is returned
C15_SaveEndsWithinEightAttempts ==
    /\ [](sv.state = "running" => sv.attempt < 8)
    /\ [](sv.error = "other" => sv.state = "raised")
    /\ [](sv.error = "busy" => (sv.state = "raised" /\ sv.attempt = 8 /\ Len(gen.out) = 0))
    /\ [](sv.state = "returned" => (sv.error = "none" /\ Len(gen.out) = 1))
    /\ (sv.state = "running") ~> (sv.state \in {"returned", "raised"})

\* the store was busy on all 8 attempts and save_meal_plan raised
C15_Witness == pc = "raised" /\ sv.error = "busy" /\ sv.attempt = 8

\* min(1.5, 0.2 * 1.6^(k-1)) in units of 0.00001: 0.2 * 1.6^(k-1) is
\* 2 * 16^(k-1) / 10^(k-5) of that unit
backoff(k) ==
    IF k <= 5 THEN Min(150000, 2 * 16^(k - 1) * 10^(5 - k))
    ELSE IF 2 * 16^(k - 1) >= 150000 * 10^(k - 5) THEN 150000
    ELSE (2 * 16^(k - 1)) \div 10^(k - 5)

\* C16: the k-th delay slept by save_meal_plan is min(1.5, 0.2 * 1.6^(k-1)); the delays
\* start at 0.2, never decrease and never exceed 1.5, and at most 8 are slept
C16_DelaysFollowBackoff ==
    /\ Len(sv.slept) <= 8
    /\ \A k \in 1..Len(sv.slept) :
          /\ sv.slept[k] = backoff(k)
          /\ sv.slept[k] <= 150000
          /\ k > 1 => sv.slept[k - 1] <= sv.slept[k]
    /\ Len(sv.slept) >= 1 => sv.slept[1] = 20000
    /\ SumSeq(sv.slept) <= 8 * 150000

\* all 8 delays were slept, the last ones at the cap
C16_Witness ==
    /\ Len(sv.slept) = 8
    /\ sv.slept[5] < 150000
    /\ sv.slept[6] = 150000

-----------------------------------------------------------------------------
(* More properties of one generate_daily_plan call (specification SpecPlan) *)

\* C18: for a non-positive meal_count and a non-empty recipe pool the produced plan has
\* one recipe item
C18_NonPositiveMealCountFillsOneSlot ==
    (pc = "exit" /\ req.meals_per_day <= 0 /\ filtered_recipes(req.exclusions) # <<>>)
        => Cardinality(RecipeItems) = 1

\* the macro term of a score or an error: present only for a target the caller supplied
CallerTerm(k, weight, amount) ==
    IF req.macro_targets # NoTargets /\ req.macro_targets[k] # None
    THEN weight * Abs(req.macro_targets[k] - amount)
    ELSE 0

\* C19: the score of a recipe and the gap filler's error of the current totals hold a
\* macro term only for the targets the caller supplied; with no target supplied they are
\* the calorie distance alone
C19_OnlySuppliedTargetsCount ==
    LET m == meal_divisor(req.meals_per_day)
    IN  /\ \A r \in Range(catalog.recipes) :
              r.kcal_per_serving # 0
                  => score_recipe(r, req.target_calories, req.meals_per_day, Targets).v
                        = 10 * Abs(req.target_calories - m * r.kcal_per_serving)
                          + CallerTerm("protein_g", 20, m * r.protein_g_per_serving)
                          + CallerTerm("carbs_g", 10, m * r.carbs_g_per_serving)
                          + CallerTerm("fat_g", 12, m * r.fat_g_per_serving)
        /\ pc = "gap"
              => plan_error(gen.totals, req.target_calories, Targets)
                    = IF req.macro_targets = NoTargets
                      THEN 10 * Abs(req.target_calories - gen.totals.calories)
                      ELSE 5 * Abs(req.target_calories - gen.totals.calories)
                           + CallerTerm("protein_g", 20, gen.totals.protein_g)
                           + CallerTerm("carbs_g", 10, gen.totals.carbs_g)
                           + CallerTerm("fat_g", 12, gen.totals.fat_g)

-----------------------------------------------------------------------------
(* generate_daily_plan as a function of the catalogue and its arguments *)

RECURSIVE daily_chosen(_, _, _)
\* the slot loop, lines 130-158, from slot meal_idx on
daily_chosen(meal_idx, chosen, used_ids) ==
    IF meal_idx >= req.meals_per_day THEN chosen
    ELSE LET candidates == slot_candidates(req.exclusions, req.preferred_tags_per_meal,
                                           meal_idx, used_ids)
             picked == first_sorted(candidates, req.target_calories, req.meals_per_day, Targets)
         IN  IF candidates # <<>>
             THEN daily_chosen(meal_idx + 1, Append(chosen, picked), used_ids \cup {picked.id})
             ELSE daily_chosen(meal_idx + 1, chosen, used_ids)

RECURSIVE daily_gap(_, _)
\* the gap filler, lines 167-226, from iteration iter on
daily_gap(items, iter) ==
    LET totals      == _totals(items)
        products    == filtered_products(req.exclusions)
        current_err == plan_error(totals, req.target_calories, Targets)
        best        == best_product(products, [choice |-> <<>>, err |-> current_err],
                                    totals, req.target_calories, Targets)
    IN  IF products # <<>> /\ iter < gap_rounds /\ gap_commits(best, current_err)
        THEN daily_gap(Append(items, product_item(best.choice[1], totals,
                                                  req.target_calories, Targets)),
                       iter + 1)
        ELSE items

\* the item list of one generate_daily_plan call with the running request's arguments
daily_items ==
    LET chosen == daily_chosen(0, <<>>, {})
    IN  daily_gap([k \in 1..Len(chosen) |-> recipe_item(chosen[k])], 0)

-----------------------------------------------------------------------------
(* Properties of the weekly orchestrator (specification Spec) *)

\* C21: the item list and the totals every day of generate_weekly_plan hands to
\* save_meal_plan are those of one generate_daily_plan call with the same arguments,
\* whatever the store holds and whatever the days before chose
C21_EveryDayPlannedAlone ==
    (req.handler = "plan_week" /\ pc = "save")
        => /\ gen.items = daily_items
           /\ gen.totals = _totals(daily_items)

\* the second day of a week is about to be saved, with a recipe the first day chose
C21_Witness ==
    /\ req.handler = "plan_week"
    /\ pc = "save"
    /\ gen.i = 1
    /\ \E k \in RecipeItems, j \in 1..Len(sv.items) :
          /\ sv.items[j].item_type = "recipe"
          /\ sv.items[j].item_id = gen.items[k].item_id

-----------------------------------------------------------------------------
(* Properties of the substitution page (specification SpecAlt) *)

\* the recipe the requested item names
Original == CHOOSE c \in Range(catalog.recipes) : c.id = hist.op.recipe_id

\* the number of distinct tags recipe c shares with the original recipe
SharedTags(c) == Cardinality(Range(c.tags) \cap Range(Original.tags))

\* C22: the candidates offered for a recipe do not hold the recipe itself, share at
\* least one tag with it each, and come with the larger number of distinct shared tags
\* first
C22_CandidatesByDistinctSharedTags ==
    (hist.op.kind = "alternatives_get" /\ hist.op.recipe_id # 0)
        => /\ \A k \in 1..Len(gen.out) : gen.out[k].id # Original.id
           /\ \A k \in 1..Len(gen.out) : SharedTags(gen.out[k]) >= 1
           /\ \A i \in 1..Len(gen.out), j \in 1..Len(gen.out) :
                 i < j => SharedTags(gen.out[i]) >= SharedTags(gen.out[j])

-----------------------------------------------------------------------------
(* Properties of the slot selector (specification SpecPlan) *)

\* the number of recipe items of a plan for meal_count slots
RecipeItemCount(meal_count) ==
    (pc # "slots")
        => Cardinality(RecipeItems) = Min(meal_count, Len(filtered_recipes(req.exclusions)))

\* from an empty catalogue a plan without items and with zero totals is persisted
EmptyCatalogPersisted ==
    (pc = "exit" /\ catalog.recipes = <<>> /\ catalog.products = <<>>)
        => /\ gen.items = <<>>
           /\ conn.work.items = {}
           /\ \E p \in conn.work.plans :
                 /\ p.date = Day
                 /\ p.id = gen.out[1][2]
                 /\ p.total_calories = 0 /\ p.total_protein = 0
                 /\ p.total_carbs = 0 /\ p.total_fat = 0

UsedBefore(k) == {gen.chosen[j].id : j \in 1..(k - 1)}

\* the non-empty preferred tags of the slot of the k-th chosen recipe, in lower case
PreferredTags(k) ==
    IF k <= Len(req.preferred_tags_per_meal)
    THEN {lower(t) : t \in Range(req.preferred_tags_per_meal[k]) \ {<<>>}}
    ELSE {}

\* the recipes not excluded and not used before the k-th choice
Eligible(k) ==
    {r \in Range(catalog.recipes) : NoExcludedTerm(r.title) /\ r.id \notin UsedBefore(k)}

\* those of them that carry a preferred tag of the slot
Carrying(k) ==
    {r \in Eligible(k) : \E t \in Range(r.tags) : lower(t) \in PreferredTags(k)}

\* C24: the recipe of a slot with preferred tags carries one of them whenever an
\* unused, non-excluded recipe does; otherwise it is one of the unused, non-excluded
\* recipes
C24_PreferredTagNarrowsPool ==
    \A k \in 1..Len(gen.chosen) :
        IF Carrying(k) # {} THEN gen.chosen[k] \in Carrying(k)
        ELSE gen.chosen[k] \in Eligible(k)

\* one slot was narrowed by its tags (given in another case than the recipe's) and a
\* later slot with preferred tags fell back to the unused recipes
C24_Witness ==
    /\ pc = "exit"
    /\ \E k \in 1..Len(gen.chosen) :
          /\ Carrying(k) # {}
          /\ Eligible(k) \ Carrying(k) # {}
          /\ \E t \in Range(gen.chosen[k].tags) :
                t \notin PreferredTags(k) /\ lower(t) \in PreferredTags(k)
    /\ \E k \in 1..Len(gen.chosen) : PreferredTags(k) # {} /\ Carrying(k) = {}

\* the candidate pool the k-th chosen recipe was taken from
PoolOf(k) ==
    slot_candidates(req.exclusions, req.preferred_tags_per_meal, k - 1, UsedBefore(k))

\* the score of a recipe for the running request
ScoreOf(r) == score_recipe(r, req.target_calories, req.meals_per_day, Targets)

\* C25: every chosen recipe has the least score of its slot's pool, and no candidate
\* before it in the pool has the same score
C25_LeastScoreFirstInPool ==
    \A k \in 1..Len(gen.chosen) :
        LET pool == PoolOf(k)
        IN  \E i \in 1..Len(pool) :
                /\ pool[i] = gen.chosen[k]
                /\ \A j \in 1..Len(pool) : ~ScoreLess(ScoreOf(pool[j]), ScoreOf(pool[i]))
                /\ \A j \in 1..(i - 1) : ScoreOf(pool[j]) # ScoreOf(pool[i])

\* a slot had two candidates with the same, least score
C25_Witness ==
    /\ pc = "exit"
    /\ \E k \in 1..Len(gen.chosen) :
          \E j \in 1..Len(PoolOf(k)) :
              /\ PoolOf(k)[j] # gen.chosen[k]
              /\ ScoreOf(PoolOf(k)[j]) = ScoreOf(gen.chosen[k])

\* C26: a recipe with zero calories per serving is chosen only from a pool in which
\* every candidate has zero calories
C26_ZeroCalorieRecipeIsLastResort ==
    \A k \in 1..Len(gen.chosen) :
        gen.chosen[k].kcal_per_serving = 0
            => \A r \in Range(PoolOf(k)) : r.kcal_per_serving = 0

\* for a request with a macro target, a recipe without calories was passed over in a
\* slot that had another candidate, and chosen in a later slot
C26_Witness ==
    /\ pc = "exit"
    /\ req.macro_targets # NoTargets
    /\ \E k \in 1..Len(gen.chosen) :
          /\ gen.chosen[k].kcal_per_serving # 0
          /\ \E r \in Range(PoolOf(k)) : r.kcal_per_serving = 0
    /\ \E k \in 1..Len(gen.chosen) : gen.chosen[k].kcal_per_serving = 0

-----------------------------------------------------------------------------
(* Properties of the gap filler (specification SpecGap) *)

\* the totals of the plan before its k-th item was added
TotalsBefore(k) == _totals(SubSeq(gen.items, 1, k - 1))

\* the row of products an item names
ProductOf(item) == CHOOSE p \in Range(catalog.products) : p.id = item.item_id

\* the portions, in servings, that would close one positive macro deficit with product p
DeficitPortions(p, totals) ==
    {((Targets[m[1]] - totals[m[1]]) * 10000) \div p[m[2]] :
        m \in {m \in {<<"protein_g", "protein_g_per_100">>, <<"carbs_g", "carbs_g_per_100">>,
                      <<"fat_g", "fat_g_per_100">>} :
                 Targets[m[1]] - totals[m[1]] > 0 /\ p[m[2]] > 0}}

\* C27: every product item of the plan has between 0.25 and 3.0 servings: the largest
\* portion that closes one positive macro deficit, clamped, or 0.5 when there is none;
\* and its product has positive calories per 100
C27_PortionClampedToDeficit ==
    \A k \in ProductItems :
        LET p        == ProductOf(gen.items[k])
            portions == DeficitPortions(p, TotalsBefore(k))
            largest  == CHOOSE x \in portions : \A y \in portions : y <= x
        IN  /\ gen.items[k].servings >= 2500
            /\ gen.items[k].servings <= 30000
            /\ gen.items[k].servings =
                  IF portions = {} THEN 5000 ELSE Min(30000, Max(2500, largest))
            /\ p.kcal_per_100 > 0

\* a plan holds a product at the upper clamp and one whose portion is the largest
\* deficit portion itself, from a catalogue whose product without calories was not
\* excluded
C27_Witness ==
    /\ pc = "exit"
    /\ \E p \in Range(filtered_products(req.exclusions)) : p.kcal_per_100 = 0
    /\ \E k \in ProductItems : gen.items[k].servings = 30000
    /\ \E k \in ProductItems :
          /\ gen.items[k].servings < 30000
          /\ gen.items[k].servings \in DeficitPortions(ProductOf(gen.items[k]), TotalsBefore(k))

-----------------------------------------------------------------------------
(* Properties of the macro snapshot (specification Spec) *)

\* the achieved totals in the snapshot of plan row p are its totals columns
SnapshotMatchesColumns(p) ==
    p.macros_json.actual = [calories  |-> p.total_calories,
                            protein_g |-> p.total_protein,
                            carbs_g   |-> p.total_carbs,
                            fat_g     |-> p.total_fat]

\* C28: when a generation, a re-serve or a substitution has completed on a store whose
\* totals matched the items and whose snapshots matched the totals columns, the snapshot
\* of every stored plan still equals its totals columns
C28_SnapshotMatchesTotals ==
    (/\ pc = "idle"
     /\ TotalsMatchItems(hist.base)
     /\ \A p \in hist.base.plans : SnapshotMatchesColumns(p))
        => \A p \in db.plans : SnapshotMatchesColumns(p)

-----------------------------------------------------------------------------
(* Properties of the admin crawl jobs (specification SpecCrawl) *)

\* the crawl threads of a job kind that have not ended
AliveThreads(job) ==
    {t \in Threads : crawl.threads[t].job = job /\ crawl.threads[t].pc # "done"}

\* the request thread c leaves the test of the running flag
LeavesCheck(c) ==
    crawl.callers[c].pc = "check" /\ crawl'.callers[c].pc # "check"

\* C29: no job kind ever has two crawl threads that have not ended; a _start_crawl that
\* finds the running flag of its kind set returns False and changes neither
\* _crawl_state nor _crawl_logs nor the threads, and only such a call returns False
C29_OneThreadPerKind ==
    /\ [](\A job \in Jobs : Cardinality(AliveThreads(job)) <= 1)
    /\ [][\A c \in Callers :
            LeavesCheck(c) =>
                IF crawl.state[crawl.callers[c].job].running
                THEN /\ crawl'.callers[c].result = "refused"
                     /\ crawl'.callers[c].pc = "idle"
                     /\ crawl'.state = crawl.state
                     /\ crawl'.logs = crawl.logs
                     /\ crawl'.threads = crawl.threads
                ELSE crawl'.callers[c].pc = "update"]_vars

\* two requests for one kind were inside _start_crawl together: one was refused while
\* the other had set the flag and not yet started its thread
C29_Witness ==
    \E c \in Callers, d \in Callers :
        /\ c # d
        /\ crawl.callers[c].result = "refused"
        /\ crawl.callers[d].pc = "spawn"
        /\ crawl.callers[c].job = crawl.callers[d].job

\* the crawl function of thread t has returned or raised, or its database did not
\* open, and the thread has not yet cleared the flag
Ended(t) == t \in Threads /\ crawl.threads[t].pc \in {"finally", "clear"}

\* the request thread c has found the flag clear and has not yet returned True
Starting(c) == crawl.callers[c].pc \in {"update", "spawn"}

\* C30: a thread whose crawl function has ended does not stay short of clearing the
\* flag, and the step that takes it on ends it with the running flag of its kind
\* cleared and finished_at set; a flag is set only while a thread of the kind is alive
\* or about to be started; a _start_crawl that found the flag clear does not stay short
\* of returning, and the step that ends it returns True with a new thread started;
\* while a thread is alive, processed + errors of its kind is the number of progress
\* calls it has completed
C30_JobsEndAndCountEvents ==
    /\ \A t \in 1..MaxCrawlRequests : []<>(~Ended(t))
    /\ [][\A t \in Threads :
            (Ended(t) /\ crawl'.threads[t].pc \notin {"finally", "clear"})
                => /\ crawl'.threads[t].pc = "done"
                   /\ ~crawl'.state[crawl.threads[t].job].running
                   /\ crawl'.state[crawl.threads[t].job].finished_at # None]_vars
    /\ \A c \in Callers : []<>(~Starting(c))
    /\ [][\A c \in Callers :
            (Starting(c) /\ crawl'.callers[c].pc \notin {"update", "spawn"})
                => /\ crawl'.callers[c].result = "started"
                   /\ Len(crawl'.threads) = Len(crawl.threads) + 1]_vars
    /\ [](\A job \in Jobs :
            crawl.state[job].running
                => \/ AliveThreads(job) # {}
                   \/ \E c \in Callers :
                         crawl.callers[c].job = job /\ crawl.callers[c].pc = "spawn")
    /\ [](\A t \in Threads :
            crawl.threads[t].pc # "done"
                => crawl.state[crawl.threads[t].job].processed
                   + crawl.state[crawl.threads[t].job].errors = crawl.threads[t].sent)

\* a job that reported no event has ended and cleared its flag, and a second job of
\* the same kind was started after it and has counted an event
C30_Witness ==
    /\ Len(crawl.threads) >= 2
    /\ crawl.threads[1].pc = "done"
    /\ crawl.threads[1].sent = 0
    /\ crawl.threads[2].job = crawl.threads[1].job
    /\ crawl.threads[2].pc # "done"
    /\ crawl.threads[2].sent >= 1
    /\ crawl.state[crawl.threads[2].job].processed + crawl.state[crawl.threads[2].job].errors >= 1

====
